---- MODULE Spec2Model ----
(***************************************************************************)
(* Model of the sensor HTTP handlers of internal/handlers/sensor.handler.go *)
(* (SensorHandler: Create, GetAll, GetById, UpdateForm, Update, Delete).    *)
(*                                                                         *)
(* One request is followed from its first statement to its return, one     *)
(* action per call the handler makes.  The handler object holds no state   *)
(* of its own, so the state is the request in flight (rq), the sensor      *)
(* table behind the repositories, and the transactions open on the pool.   *)
(* Collaborators whose code is outside the handler file (repositories,     *)
(* validator, helper.CommitOrRollback, the web framework) may fail at any  *)
(* call; their successful results are modelled from the specification.     *)
(***************************************************************************)
EXTENDS Integers, Sequences, FiniteSets, TLC

VARIABLES rq, sensors, creator, nextId, openTx

vars == <<rq, sensors, creator, nextId, openTx>>

(* ------------------------------ bounds -------------------------------- *)

\* sensor ids the repository can hand out
MaxSensors == 2
\* longest channel list GetSensorChannel returns; timestamps are 1..MaxChan
MaxChan == 2

(* ------------------------------ fixtures ------------------------------ *)

\* users 1 and 2 are ordinary users, user 3 is an admin; 0 is a request that
\* carries no valid credentials
Users == {1, 2, 3}
NoUser == [IdUser |-> 0, IsAdmin |-> FALSE]
Anonymous == NoUser.IdUser
Requesters == Users \cup {Anonymous}
IsAdminUser(u) == u = 3

UserRec(u) == [IdUser |-> u, IsAdmin |-> IsAdminUser(u)]

\* node n is owned by user n
NodeIds == {1, 2}
NodeRow(n) == [IdNode |-> n, IdUser |-> n]
NoNode == [IdNode |-> 0, IdUser |-> 0]

\* hardware types are kept as character sequences so that case folding is
\* computed, not assumed
TypeSensor == <<"s", "e", "n", "s", "o", "r">>
HardwareIds == {1, 2, 3, 4}
HardwareType(hw) ==
    CASE hw = 1 -> TypeSensor
      [] hw = 2 -> <<"S", "e", "N", "S", "O", "r">>
      [] hw = 3 -> <<"s", "e", "n", "s", "o", "r", "s">>
      [] OTHER  -> <<"S", "E", "R", "V", "O", "S">>
HardwareRow(hw) == [IdHardware |-> hw, Type |-> HardwareType(hw)]
NoHardware == [IdHardware |-> 0, Type |-> <<>>]

Names == {"a", "b"}

SensorIds == 1..MaxSensors
\* a stored sensor row: the node it hangs under and its metadata
NoSensor == [IdNode |-> 0, Name |-> ""]
SensorRow(body) == [IdNode |-> body.IdNode, Name |-> body.Name]
NoBody == [IdNode |-> 0, IdHardware |-> 0, Name |-> ""]
CreateBodies == [IdNode : NodeIds, IdHardware : HardwareIds, Name : Names]
UpdateBodies == [IdNode : {0}, IdHardware : {0}, Name : Names]

\* a channel list: the i-th reading carries the value i, so that readings
\* with equal Time stay distinguishable
Times == 1..MaxChan
ChannelLists ==
    UNION {{[i \in 1..n |-> [Time |-> t[i], Value |-> i]] : t \in [1..n -> Times]} :
             n \in 0..MaxChan}

NoWrite == [op |-> "none", id |-> 0, arg |-> NoBody, by |-> 0]
NoResp == [kind |-> "none", sensor |-> NoSensor, channels |-> <<>>, ids |-> {}]

Handlers == {"Create", "GetAll", "GetById", "UpdateForm", "Update", "Delete"}

IdleReq ==
    [h |-> "idle", pc |-> "idle", user |-> Anonymous, id |-> 0, body |-> NoBody,
     tx |-> "none", deferred |-> FALSE, begins |-> 0, ends |-> 0,
     write |-> NoWrite, status |-> "", err |-> "nil", calls |-> <<>>,
     node |-> NoNode, hardware |-> NoHardware, sensor |-> NoSensor,
     owner |-> 0, channels |-> <<>>, fetched |-> <<>>, current |-> NoUser,
     resp |-> NoResp,
     pre |-> [s \in SensorIds |-> NoSensor]]

(* --------------------------- pure functions --------------------------- *)

\* strings.ToLower on one character: upper-case letters map to lower case,
\* everything else is kept
LowerChar(c) ==
    CASE c = "S" -> "s" [] c = "E" -> "e" [] c = "N" -> "n" [] c = "O" -> "o"
      [] c = "R" -> "r" [] c = "V" -> "v" [] OTHER -> c

ToLower(s) == [i \in 1..Len(s) |-> LowerChar(s[i])]

\* the comparison without the case folding
HardwareTypeExact(hardware) == hardware.Type = TypeSensor

\* Create, lines 66-67: hardwareType := strings.ToLower(hardware.Type);
\* the request goes on only if hardwareType == "sensor"
HardwareTypeOk(hardware) == ToLower(hardware.Type) = TypeSensor

\* the ownership test with the admin override the other handlers have
MayUseNodeOrAdmin(currentUser, node) ==
    currentUser.IdUser = node.IdUser \/ currentUser.IsAdmin

\* Create, line 76: the request goes on only if
\* currentUser.IdUser == node.IdUser
MayUseNode(currentUser, node) == currentUser.IdUser = node.IdUser

\* the test with the negation of IsAdmin lost
MaySeeUnlessAdmin(sensorOwnerId, currentUser) ==
    ~(sensorOwnerId # currentUser.IdUser /\ currentUser.IsAdmin)

\* GetById, line 151
MaySee(sensorOwnerId, currentUser) ==
    ~(sensorOwnerId # currentUser.IdUser /\ ~currentUser.IsAdmin)

\* the test with the negation of IsAdmin lost
MayEditUnlessAdmin(sensorOwnerId, currentUser) ==
    ~(sensorOwnerId # currentUser.IdUser /\ currentUser.IsAdmin)

\* Update, line 235
MayEdit(sensorOwnerId, currentUser) ==
    ~(sensorOwnerId # currentUser.IdUser /\ ~currentUser.IsAdmin)

\* Delete, line 270
MayDelete(sensorOwnerId, currentUser) ==
    ~(sensorOwnerId # currentUser.IdUser /\ ~currentUser.IsAdmin)

\* c.Accepts("application/json", "text/html"): the first offer the request's
\* Accept header admits, "" when it admits neither
AcceptHeaders == {"application/json", "text/html", "*/*", "image/png"}
Accepts(header) ==
    CASE header = "application/json" -> "application/json"
      [] header = "text/html" -> "text/html"
      [] header = "*/*" -> "application/json"
      [] OTHER -> ""

\* sort.Slice(channels, less) with less(i, j) = channels[i].Time.Before(
\* channels[j].Time): the slice is reordered in place so that no element is
\* Before its predecessor.  sort.Slice is not stable, so elements with equal
\* Time may come out in any order: every ordered rearrangement is possible.
Rearrangements(s) ==
    {[i \in 1..Len(s) |-> s[p[i]]] :
        p \in {q \in [1..Len(s) -> 1..Len(s)] :
                 \A i, j \in 1..Len(s) : i # j => q[i] # q[j]}}
Before(a, b) == a < b
SortSlice(s) ==
    {t \in Rearrangements(s) :
        \A i \in 1..(Len(t) - 1) : ~Before(t[i + 1].Time, t[i].Time)}

(* ------------------- repositories and transactions -------------------- *)

\* SensorRepository.GetById / GetIdUserWhoOwnSensorById find the row or fail
Exists(id) == sensors[id] # NoSensor
OwnerOfSensor(id) == NodeRow(sensors[id].IdNode).IdUser

\* SensorRepository.GetAll(ctx, tx, &currentUser): the sensors scoped to the
\* current user
SensorsOf(currentUser) ==
    {s \in SensorIds : Exists(s) /\ OwnerOfSensor(s) = currentUser.IdUser}

\* the effect of a transaction's pending write once it commits
Apply(tbl, w) ==
    CASE w.op = "create" -> [tbl EXCEPT ![w.id] = SensorRow(w.arg)]
      [] w.op = "update" ->
           IF tbl[w.id] # NoSensor THEN [tbl EXCEPT ![w.id].Name = w.arg.Name]
           ELSE tbl
      [] w.op = "delete" -> [tbl EXCEPT ![w.id] = NoSensor]
      [] OTHER -> tbl

ApplyCreator(c, w) ==
    CASE w.op = "create" -> [c EXCEPT ![w.id] = w.by]
      [] w.op = "delete" -> [c EXCEPT ![w.id] = 0]
      [] OTHER -> c

\* helper.CommitOrRollback(ctx, tx, &err), run by defer when the handler
\* returns: commit when the returned error is nil, roll back otherwise
CommitOrRollback(d) ==
    /\ IF d.err = "nil"
       THEN /\ rq' = [d EXCEPT !.tx = "committed", !.ends = @ + 1]
            /\ sensors' = Apply(sensors, d.write)
            /\ creator' = ApplyCreator(creator, d.write)
       ELSE /\ rq' = [d EXCEPT !.tx = "rolledback", !.ends = @ + 1]
            /\ UNCHANGED <<sensors, creator>>
    /\ openTx' = openTx - 1

(* --------------------------- handler plumbing ------------------------- *)

Call(q, name) == [q EXCEPT !.calls = Append(@, name)]

Finished(q, status, e) == [q EXCEPT !.pc = "done", !.status = status, !.err = e]

\* a return before the handler's defer statement was reached
ReturnEarly(q, status, e) ==
    /\ rq' = Finished(q, status, e)
    /\ UNCHANGED <<sensors, creator, nextId, openTx>>

\* a return after "defer helper.CommitOrRollback(ctx, tx, &err)"
ReturnDeferred(q, status, e) ==
    /\ CommitOrRollback(Finished(q, status, e))
    /\ UNCHANGED nextId

Goto(q, pc) ==
    /\ rq' = [q EXCEPT !.pc = pc]
    /\ UNCHANGED <<sensors, creator, nextId, openTx>>

At(h, pc) == rq.h = h /\ rq.pc = pc

FirstPc(h) ==
    CASE h = "Create" -> "ParseBody"
      [] h = "GetAll" -> "Begin"
      [] OTHER -> "ParseId"

Init ==
    /\ rq = IdleReq
    /\ sensors = [s \in SensorIds |-> NoSensor]
    /\ creator = [s \in SensorIds |-> 0]
    /\ nextId = 1
    /\ openTx = 0

\* the framework routes a request of some user to a handler
Start ==
    /\ rq.pc = "idle"
    /\ \E h \in Handlers, u \in Requesters :
          rq' = [IdleReq EXCEPT !.h = h, !.user = u, !.pc = FirstPc(h),
                                !.pre = sensors]
    /\ UNCHANGED <<sensors, creator, nextId, openTx>>

\* the response has been written; the handler is ready for the next request
Respond ==
    /\ rq.pc = "done"
    /\ rq' = IdleReq
    /\ UNCHANGED <<sensors, creator, nextId, openTx>>

(* ------------------------------- Create ------------------------------- *)

\* lines 43-48
CreateParseBody ==
    /\ At("Create", "ParseBody")
    /\ LET q == Call(rq, "ParseBody") IN
       \/ ReturnEarly(q, "error", "validation")
       \/ \E b \in CreateBodies : Goto([q EXCEPT !.body = b], "Begin")

\* lines 50-54
CreateBegin ==
    /\ At("Create", "Begin")
    /\ LET q == Call(rq, "Begin") IN
       \/ ReturnEarly(q, "error", "begin")
       \/ /\ rq' = [q EXCEPT !.pc = "NodeGetById", !.tx = "open",
                             !.begins = @ + 1, !.deferred = TRUE]
          /\ openTx' = openTx + 1
          /\ UNCHANGED <<sensors, creator, nextId>>

\* lines 56-59
CreateNodeGetById ==
    /\ At("Create", "NodeGetById")
    /\ LET q == Call(rq, "NodeGetById") IN
       \/ ReturnDeferred(q, "error", "node")
       \/ Goto([q EXCEPT !.node = NodeRow(q.body.IdNode)], "HardwareGetById")

\* the hardware lookup without the type check after it
CreateHardwareGetByIdUnchecked ==
    /\ At("Create", "HardwareGetById")
    /\ LET q == Call(rq, "HardwareGetById") IN
       \/ ReturnDeferred(q, "error", "hardware")
       \/ Goto([q EXCEPT !.hardware = HardwareRow(q.body.IdHardware)],
               "GetAuthentication")

\* lines 61-69
CreateHardwareGetById ==
    /\ At("Create", "HardwareGetById")
    /\ LET q == Call(rq, "HardwareGetById") IN
       \/ ReturnDeferred(q, "error", "hardware")
       \/ LET g == [q EXCEPT !.hardware = HardwareRow(q.body.IdHardware)] IN
          IF ~HardwareTypeOk(g.hardware)
          THEN ReturnDeferred(g, "400", "Hardware type not match")
          ELSE Goto(g, "GetAuthentication")

\* lines 71-78
CreateGetAuthentication ==
    /\ At("Create", "GetAuthentication")
    /\ LET q == Call(rq, "GetAuthentication") IN
       IF q.user = Anonymous
       THEN ReturnDeferred(q, "error", "authentication")
       ELSE LET g == [q EXCEPT !.current = UserRec(q.user)] IN
            IF ~MayUseNode(g.current, g.node)
            THEN ReturnDeferred(g, "403", "other user's node")
            ELSE Goto(g, "RepoCreate")

\* repository.Create handed the pool instead of the transaction: the row is
\* written at once
CreateRepoCreateOnPool ==
    /\ At("Create", "RepoCreate")
    /\ LET q == Call(rq, "RepoCreate") IN
       \/ ReturnDeferred(q, "error", "repository")
       \/ /\ nextId <= MaxSensors
          /\ rq' = [q EXCEPT !.pc = "Send",
                             !.write = [op |-> "create", id |-> nextId,
                                        arg |-> q.body, by |-> q.current.IdUser]]
          /\ sensors' = [sensors EXCEPT ![nextId] = SensorRow(q.body)]
          /\ creator' = [creator EXCEPT ![nextId] = q.current.IdUser]
          /\ nextId' = nextId + 1
          /\ UNCHANGED openTx

\* repository.Create with its error dropped
CreateRepoCreateIgnoreErr ==
    /\ At("Create", "RepoCreate")
    /\ LET q == Call(rq, "RepoCreate") IN
       \/ Goto(q, "Send")
       \/ /\ nextId <= MaxSensors
          /\ rq' = [q EXCEPT !.pc = "Send",
                             !.write = [op |-> "create", id |-> nextId,
                                        arg |-> q.body, by |-> q.current.IdUser]]
          /\ nextId' = nextId + 1
          /\ UNCHANGED <<sensors, creator, openTx>>

\* lines 80-83
CreateRepoCreate ==
    /\ At("Create", "RepoCreate")
    /\ LET q == Call(rq, "RepoCreate") IN
       \/ ReturnDeferred(q, "error", "repository")
       \/ /\ nextId <= MaxSensors
          /\ rq' = [q EXCEPT !.pc = "Send",
                             !.write = [op |-> "create", id |-> nextId,
                                        arg |-> q.body, by |-> q.current.IdUser]]
          /\ nextId' = nextId + 1
          /\ UNCHANGED <<sensors, creator, openTx>>

\* line 85
CreateSend ==
    /\ At("Create", "Send")
    /\ LET q == Call(rq, "Send") IN
       \/ ReturnDeferred(q, "error", "send")
       \/ ReturnDeferred([q EXCEPT !.resp.kind = "text"], "201", "nil")

(* ------------------------------- GetAll ------------------------------- *)

\* lines 90-94
GetAllBegin ==
    /\ At("GetAll", "Begin")
    /\ LET q == Call(rq, "Begin") IN
       \/ ReturnEarly(q, "error", "begin")
       \/ /\ rq' = [q EXCEPT !.pc = "GetAuthentication", !.tx = "open",
                             !.begins = @ + 1, !.deferred = TRUE]
          /\ openTx' = openTx + 1
          /\ UNCHANGED <<sensors, creator, nextId>>

\* lines 96-99
GetAllGetAuthentication ==
    /\ At("GetAll", "GetAuthentication")
    /\ LET q == Call(rq, "GetAuthentication") IN
       IF q.user = Anonymous
       THEN ReturnDeferred(q, "error", "authentication")
       ELSE Goto([q EXCEPT !.current = UserRec(q.user)], "RepoGetAll")

\* lines 101-115
GetAllRepoGetAll ==
    /\ At("GetAll", "RepoGetAll")
    /\ LET q == Call(rq, "RepoGetAll") IN
       \/ ReturnDeferred(q, "error", "repository")
       \/ \E header \in AcceptHeaders :
            LET kind == IF Accepts(header) = "text/html" THEN "html" ELSE "json"
                g == Call(q, "Send")
            IN  \/ ReturnDeferred(g, "error", "send")
                \/ ReturnDeferred([g EXCEPT !.resp.kind = kind,
                                            !.resp.ids = SensorsOf(g.current)],
                                  "200", "nil")

(* ------------------------------- GetById ------------------------------ *)

\* lines 120-123
GetByIdParseId ==
    /\ At("GetById", "ParseId")
    /\ LET q == Call(rq, "ParseId") IN
       \/ ReturnEarly(q, "error", "validation")
       \/ \E id \in SensorIds : Goto([q EXCEPT !.id = id], "Begin")

\* lines 125-129
GetByIdBegin ==
    /\ At("GetById", "Begin")
    /\ LET q == Call(rq, "Begin") IN
       \/ ReturnEarly(q, "error", "begin")
       \/ /\ rq' = [q EXCEPT !.pc = "RepoGetById", !.tx = "open",
                             !.begins = @ + 1, !.deferred = TRUE]
          /\ openTx' = openTx + 1
          /\ UNCHANGED <<sensors, creator, nextId>>

\* lines 131-134
GetByIdRepoGetById ==
    /\ At("GetById", "RepoGetById")
    /\ LET q == Call(rq, "RepoGetById") IN
       \/ ReturnDeferred(q, "error", "repository")
       \/ /\ Exists(q.id)
          /\ Goto([q EXCEPT !.sensor = sensors[q.id]], "GetSensorChannel")

\* lines 136-139
GetByIdGetSensorChannel ==
    /\ At("GetById", "GetSensorChannel")
    /\ LET q == Call(rq, "GetSensorChannel") IN
       \/ ReturnDeferred(q, "error", "repository")
       \/ \E ch \in ChannelLists :
            Goto([q EXCEPT !.channels = ch, !.fetched = ch],
                 "GetIdUserWhoOwnSensorById")

\* lines 141-144
GetByIdGetOwner ==
    /\ At("GetById", "GetIdUserWhoOwnSensorById")
    /\ LET q == Call(rq, "GetIdUserWhoOwnSensorById") IN
       \/ ReturnDeferred(q, "error", "repository")
       \/ /\ Exists(q.id)
          /\ Goto([q EXCEPT !.owner = OwnerOfSensor(q.id)], "GetAuthentication")

\* lines 146-153
GetByIdGetAuthentication ==
    /\ At("GetById", "GetAuthentication")
    /\ LET q == Call(rq, "GetAuthentication") IN
       IF q.user = Anonymous
       THEN ReturnDeferred(q, "error", "authentication")
       ELSE LET g == [q EXCEPT !.current = UserRec(q.user)] IN
            IF ~MaySee(g.owner, g.current)
            THEN ReturnDeferred(g, "403", "another user's sensor")
            ELSE Goto(g, "Send")

\* the text/html case with the comparison turned around
RenderDetailDescending(q) ==
    \E sorted \in {t \in Rearrangements(q.channels) :
                     \A i \in 1..(Len(t) - 1) : ~Before(t[i].Time, t[i + 1].Time)} :
        \/ ReturnDeferred([q EXCEPT !.channels = sorted], "error", "send")
        \/ ReturnDeferred([q EXCEPT !.channels = sorted,
                                    !.resp.kind = "html",
                                    !.resp.sensor = q.sensor,
                                    !.resp.channels = sorted],
                          "200", "nil")

\* lines 157-166: the text/html case
RenderDetail(q) ==
    \E sorted \in SortSlice(q.channels) :
        \/ ReturnDeferred([q EXCEPT !.channels = sorted], "error", "send")
        \/ ReturnDeferred([q EXCEPT !.channels = sorted,
                                    !.resp.kind = "html",
                                    !.resp.sensor = q.sensor,
                                    !.resp.channels = sorted],
                          "200", "nil")

\* lines 167-172: the default case
JsonDetail(q) ==
    \/ ReturnDeferred(q, "error", "send")
    \/ ReturnDeferred([q EXCEPT !.resp.kind = "json",
                                !.resp.sensor = q.sensor,
                                !.resp.channels = q.channels],
                      "200", "nil")

\* lines 155-173
GetByIdSend ==
    /\ At("GetById", "Send")
    /\ LET q == Call(rq, "Send") IN
       \E header \in AcceptHeaders :
          IF Accepts(header) = "text/html" THEN RenderDetail(q) ELSE JsonDetail(q)

(* ------------------------------ UpdateForm ---------------------------- *)

\* lines 177-180
UpdateFormParseId ==
    /\ At("UpdateForm", "ParseId")
    /\ LET q == Call(rq, "ParseId") IN
       \/ ReturnEarly(q, "error", "validation")
       \/ \E id \in SensorIds : Goto([q EXCEPT !.id = id], "Begin")

\* lines 183-187
UpdateFormBegin ==
    /\ At("UpdateForm", "Begin")
    /\ LET q == Call(rq, "Begin") IN
       \/ ReturnEarly(q, "error", "begin")
       \/ /\ rq' = [q EXCEPT !.pc = "RepoGetById", !.tx = "open",
                             !.begins = @ + 1, !.deferred = TRUE]
          /\ openTx' = openTx + 1
          /\ UNCHANGED <<sensors, creator, nextId>>

\* lines 189-192
UpdateFormRepoGetById ==
    /\ At("UpdateForm", "RepoGetById")
    /\ LET q == Call(rq, "RepoGetById") IN
       \/ ReturnDeferred(q, "error", "repository")
       \/ /\ Exists(q.id)
          /\ Goto([q EXCEPT !.sensor = sensors[q.id]], "Send")

\* lines 194-198
UpdateFormSend ==
    /\ At("UpdateForm", "Send")
    /\ LET q == Call(rq, "Send") IN
       \/ ReturnDeferred(q, "error", "send")
       \/ ReturnDeferred([q EXCEPT !.resp.kind = "html",
                                   !.resp.sensor = q.sensor],
                         "200", "nil")

(* ------------------------------- Update ------------------------------- *)

\* lines 203-206
UpdateParseId ==
    /\ At("Update", "ParseId")
    /\ LET q == Call(rq, "ParseId") IN
       \/ ReturnEarly(q, "error", "validation")
       \/ \E id \in SensorIds : Goto([q EXCEPT !.id = id], "ParseBody")

\* lines 208-212
UpdateParseBody ==
    /\ At("Update", "ParseBody")
    /\ LET q == Call(rq, "ParseBody") IN
       \/ ReturnEarly(q, "error", "validation")
       \/ \E b \in UpdateBodies : Goto([q EXCEPT !.body = b], "Begin")

\* lines 214-218
UpdateBegin ==
    /\ At("Update", "Begin")
    /\ LET q == Call(rq, "Begin") IN
       \/ ReturnEarly(q, "error", "begin")
       \/ /\ rq' = [q EXCEPT !.pc = "RepoGetById", !.tx = "open",
                             !.begins = @ + 1, !.deferred = TRUE]
          /\ openTx' = openTx + 1
          /\ UNCHANGED <<sensors, creator, nextId>>

\* lines 220-223
UpdateRepoGetById ==
    /\ At("Update", "RepoGetById")
    /\ LET q == Call(rq, "RepoGetById") IN
       \/ ReturnDeferred(q, "error", "repository")
       \/ /\ Exists(q.id)
          /\ Goto([q EXCEPT !.sensor = sensors[q.id]], "GetIdUserWhoOwnSensorById")

\* lines 225-228
UpdateGetOwner ==
    /\ At("Update", "GetIdUserWhoOwnSensorById")
    /\ LET q == Call(rq, "GetIdUserWhoOwnSensorById") IN
       \/ ReturnDeferred(q, "error", "repository")
       \/ /\ Exists(q.id)
          /\ Goto([q EXCEPT !.owner = OwnerOfSensor(q.id)], "GetAuthentication")

\* lines 230-237
UpdateGetAuthentication ==
    /\ At("Update", "GetAuthentication")
    /\ LET q == Call(rq, "GetAuthentication") IN
       IF q.user = Anonymous
       THEN ReturnDeferred(q, "error", "authentication")
       ELSE LET g == [q EXCEPT !.current = UserRec(q.user)] IN
            IF ~MayEdit(g.owner, g.current)
            THEN ReturnDeferred(g, "403", "another user's sensor")
            ELSE Goto(g, "RepoUpdate")

\* lines 239-242
UpdateRepoUpdate ==
    /\ At("Update", "RepoUpdate")
    /\ LET q == Call(rq, "RepoUpdate") IN
       \/ ReturnDeferred(q, "error", "repository")
       \/ Goto([q EXCEPT !.write = [op |-> "update", id |-> q.id,
                                    arg |-> q.body, by |-> q.current.IdUser]],
               "Send")

\* line 244
UpdateSend ==
    /\ At("Update", "Send")
    /\ LET q == Call(rq, "Send") IN
       \/ ReturnDeferred(q, "error", "send")
       \/ ReturnDeferred([q EXCEPT !.resp.kind = "text"], "200", "nil")

(* ------------------------------- Delete ------------------------------- *)

\* lines 249-252
DeleteParseId ==
    /\ At("Delete", "ParseId")
    /\ LET q == Call(rq, "ParseId") IN
       \/ ReturnEarly(q, "error", "validation")
       \/ \E id \in SensorIds : Goto([q EXCEPT !.id = id], "Begin")

\* lines 254-258
DeleteBegin ==
    /\ At("Delete", "Begin")
    /\ LET q == Call(rq, "Begin") IN
       \/ ReturnEarly(q, "error", "begin")
       \/ /\ rq' = [q EXCEPT !.pc = "GetIdUserWhoOwnSensorById", !.tx = "open",
                             !.begins = @ + 1, !.deferred = TRUE]
          /\ openTx' = openTx + 1
          /\ UNCHANGED <<sensors, creator, nextId>>

\* lines 260-263
DeleteGetOwner ==
    /\ At("Delete", "GetIdUserWhoOwnSensorById")
    /\ LET q == Call(rq, "GetIdUserWhoOwnSensorById") IN
       \/ ReturnDeferred(q, "error", "repository")
       \/ /\ Exists(q.id)
          /\ Goto([q EXCEPT !.owner = OwnerOfSensor(q.id)], "GetAuthentication")

\* the 403 returned on a path the deferred CommitOrRollback does not cover
DeleteGetAuthenticationNoDefer ==
    /\ At("Delete", "GetAuthentication")
    /\ LET q == Call(rq, "GetAuthentication") IN
       IF q.user = Anonymous
       THEN ReturnDeferred(q, "error", "authentication")
       ELSE LET g == [q EXCEPT !.current = UserRec(q.user)] IN
            IF ~MayDelete(g.owner, g.current)
            THEN ReturnEarly(g, "403", "another user's sensor")
            ELSE Goto(g, "RepoDelete")

\* lines 265-272
DeleteGetAuthentication ==
    /\ At("Delete", "GetAuthentication")
    /\ LET q == Call(rq, "GetAuthentication") IN
       IF q.user = Anonymous
       THEN ReturnDeferred(q, "error", "authentication")
       ELSE LET g == [q EXCEPT !.current = UserRec(q.user)] IN
            IF ~MayDelete(g.owner, g.current)
            THEN ReturnDeferred(g, "403", "another user's sensor")
            ELSE Goto(g, "RepoDelete")

\* lines 274-277
DeleteRepoDelete ==
    /\ At("Delete", "RepoDelete")
    /\ LET q == Call(rq, "RepoDelete") IN
       \/ ReturnDeferred(q, "error", "repository")
       \/ Goto([q EXCEPT !.write = [op |-> "delete", id |-> q.id,
                                    arg |-> NoBody, by |-> q.current.IdUser]],
               "Send")

\* line 279
DeleteSend ==
    /\ At("Delete", "Send")
    /\ LET q == Call(rq, "Send") IN
       \/ ReturnDeferred(q, "error", "send")
       \/ ReturnDeferred([q EXCEPT !.resp.kind = "text"], "200", "nil")

Next ==
    \/ Start
    \/ Respond
    \/ CreateParseBody
    \/ CreateBegin
    \/ CreateNodeGetById
    \/ CreateHardwareGetById
    \/ CreateGetAuthentication
    \/ CreateRepoCreate
    \/ CreateSend
    \/ GetAllBegin
    \/ GetAllGetAuthentication
    \/ GetAllRepoGetAll
    \/ GetByIdParseId
    \/ GetByIdBegin
    \/ GetByIdRepoGetById
    \/ GetByIdGetSensorChannel
    \/ GetByIdGetOwner
    \/ GetByIdGetAuthentication
    \/ GetByIdSend
    \/ UpdateFormParseId
    \/ UpdateFormBegin
    \/ UpdateFormRepoGetById
    \/ UpdateFormSend
    \/ UpdateParseId
    \/ UpdateParseBody
    \/ UpdateBegin
    \/ UpdateRepoGetById
    \/ UpdateGetOwner
    \/ UpdateGetAuthentication
    \/ UpdateRepoUpdate
    \/ UpdateSend
    \/ DeleteParseId
    \/ DeleteBegin
    \/ DeleteGetOwner
    \/ DeleteGetAuthentication
    \/ DeleteRepoDelete
    \/ DeleteSend

Spec == Init /\ [][Next]_vars

(* ------------------------- vocabulary of the claims ------------------- *)

Done(h) == rq.h = h /\ rq.pc = "done"
Count(name) == Cardinality({i \in 1..Len(rq.calls) : rq.calls[i] = name})
Called(name) == Count(name) > 0
Authenticated == rq.current # NoUser

\* the owner of the node a Create body names
BodyNodeOwner == NodeRow(rq.body.IdNode).IdUser

\* the owner of the sensor the request addresses, read from the table as it
\* was when the request arrived
TargetExists == rq.id \in SensorIds /\ rq.pre[rq.id] # NoSensor
TargetOwner == NodeRow(rq.pre[rq.id].IdNode).IdUser
Outsider ==
    /\ TargetExists
    /\ Authenticated
    /\ rq.current.IdUser # TargetOwner
    /\ ~rq.current.IsAdmin

\* "sensor" up to the case of each letter, spelled out letter by letter
IsSensorAnyCase(t) ==
    /\ Len(t) = 6
    /\ t[1] \in {"s", "S"} /\ t[2] \in {"e", "E"} /\ t[3] \in {"n", "N"}
    /\ t[4] \in {"s", "S"} /\ t[5] \in {"o", "O"} /\ t[6] \in {"r", "R"}

Occurrences(s, x) == Cardinality({i \in 1..Len(s) : s[i] = x})
IsPermutation(s, t) ==
    /\ Len(s) = Len(t)
    /\ \A i \in 1..Len(s) : Occurrences(s, s[i]) = Occurrences(t, s[i])
TimeAscending(s) == \A i \in 1..(Len(s) - 1) : s[i].Time <= s[i + 1].Time

IsPrefix(s, t) == Len(s) <= Len(t) /\ \A i \in 1..Len(s) : s[i] = t[i]
CreateOrder ==
    <<"ParseBody", "Begin", "NodeGetById", "HardwareGetById",
      "GetAuthentication", "RepoCreate", "Send">>

(* -------------------------------- claims ------------------------------ *)

\* C1: every persisted sensor was created by a request whose authenticated
\* user owns the node the body named, admin or not; a Create whose node
\* belongs to someone other than the authenticated user ends with 403 and
\* repository.Create is not called; whoever sends the request, one that
\* names another user's node never reaches repository.Create.
C1_CreateOnlyUnderOwnNode ==
    /\ \A s \in SensorIds :
          sensors[s] # NoSensor =>
             /\ creator[s] \in Users
             /\ creator[s] = NodeRow(sensors[s].IdNode).IdUser
    /\ (rq.h = "Create" /\ Authenticated /\ rq.current.IdUser # BodyNodeOwner) =>
          /\ rq.pc = "done"
          /\ rq.status = "403"
          /\ ~Called("RepoCreate")
          /\ rq.write = NoWrite
    /\ (rq.h = "Create" /\ rq.body # NoBody /\ rq.user # BodyNodeOwner) =>
          /\ ~Called("RepoCreate")
          /\ rq.status # "201"

\* an admin was refused the node of user 1 while a sensor is stored
C1_Witness ==
    /\ Done("Create")
    /\ rq.status = "403"
    /\ rq.current.IsAdmin
    /\ \E s \in SensorIds : sensors[s] # NoSensor

\* C2: repository.Update and repository.Delete are called only for the
\* sensor's owner or an admin; an authenticated user who is neither gets 403
\* and the sensor table is left as it was.
C2_MutateOnlyOwnerOrAdmin ==
    /\ (Called("RepoUpdate") \/ Called("RepoDelete")) =>
          /\ rq.h \in {"Update", "Delete"}
          /\ TargetExists
          /\ Authenticated
          /\ (rq.current.IdUser = TargetOwner \/ rq.current.IsAdmin)
    /\ (rq.h \in {"Update", "Delete"} /\ Outsider) =>
          /\ rq.pc = "done"
          /\ rq.status = "403"
          /\ ~Called("RepoUpdate")
          /\ ~Called("RepoDelete")
          /\ rq.write = NoWrite
          /\ sensors = rq.pre

\* an Update by a user who neither owns the sensor nor is admin was refused
C2_Witness ==
    /\ Done("Update")
    /\ Outsider
    /\ rq.status = "403"
    /\ rq.sensor # NoSensor

\* C3: UpdateForm refuses a user who is neither the sensor's owner nor an
\* admin with 403 and does not render the sensor (a request on which the
\* renderer itself failed aside).
C3_UpdateFormOwnerOrAdmin ==
    (/\ Done("UpdateForm")
     /\ TargetExists
     /\ rq.sensor # NoSensor
     /\ rq.err # "send"
     /\ rq.user \in Users
     /\ rq.user # TargetOwner
     /\ ~IsAdminUser(rq.user)) =>
        /\ rq.status = "403"
        /\ rq.resp.sensor = NoSensor

\* C4: GetById puts the sensor and its channels in the response only for the
\* sensor's owner or an admin; any other authenticated user gets 403 with an
\* empty response, and the Accept header is not even consulted.
C4_SeeOnlyOwnerOrAdmin ==
    /\ (rq.h = "GetById" /\ rq.resp # NoResp) =>
          /\ Done("GetById")
          /\ rq.status = "200"
          /\ TargetExists
          /\ Authenticated
          /\ (rq.current.IdUser = TargetOwner \/ rq.current.IsAdmin)
    /\ (rq.h = "GetById" /\ Outsider) =>
          /\ rq.pc = "done"
          /\ rq.status = "403"
          /\ rq.resp = NoResp
          /\ ~Called("Send")

\* channels were loaded for an outsider and none of them left the handler
C4_Witness ==
    /\ Done("GetById")
    /\ Outsider
    /\ rq.status = "403"
    /\ rq.fetched # <<>>
    /\ rq.sensor # NoSensor

\* C5: once the hardware row is loaded, Create goes on exactly when its Type
\* is "sensor" in whatever case; any other Type gives 400 and
\* repository.Create is not called.
C5_HardwareTypeCaseInsensitive ==
    (rq.h = "Create" /\ rq.hardware # NoHardware) =>
        /\ IsSensorAnyCase(rq.hardware.Type) =>
              /\ rq.status # "400"
              /\ (rq.pc = "GetAuthentication" \/ Called("GetAuthentication"))
        /\ ~IsSensorAnyCase(rq.hardware.Type) =>
              /\ rq.pc = "done"
              /\ rq.status = "400"
              /\ ~Called("GetAuthentication")
              /\ ~Called("RepoCreate")
              /\ rq.write = NoWrite

\* a sensor was created on hardware whose Type is not spelled in lower case
C5_Witness ==
    /\ Done("Create")
    /\ rq.status = "201"
    /\ rq.hardware.Type # TypeSensor
    /\ sensors # rq.pre

\* C6: a handler that began a transaction has ended it exactly once when it
\* returns, by commit when it returns no error and by rollback otherwise; a
\* handler that began none ends none; no transaction stays open on the pool
\* for the next request.
C6_TransactionEndedOnce ==
    /\ rq.begins \in {0, 1}
    /\ openTx = (IF rq.tx = "open" THEN 1 ELSE 0)
    /\ rq.pc = "idle" => openTx = 0
    /\ rq.pc \notin {"idle", "done"} =>
          /\ rq.ends = 0
          /\ rq.begins = 1 <=> rq.tx = "open"
          /\ rq.begins = 0 <=> rq.tx = "none"
    /\ rq.pc = "done" =>
          /\ rq.ends = rq.begins
          /\ rq.begins = 0 => rq.tx = "none"
          /\ (rq.begins = 1 /\ rq.err = "nil") => rq.tx = "committed"
          /\ (rq.begins = 1 /\ rq.err # "nil") => rq.tx = "rolledback"
          /\ Called("Begin") /\ rq.err # "begin" => rq.begins = 1

\* a 403 ended the transaction of a Delete by rollback
C6_Witness ==
    /\ Done("Delete")
    /\ rq.status = "403"
    /\ rq.begins = 1
    /\ rq.ends = 1
    /\ rq.tx = "rolledback"
    /\ openTx = 0

C8_ChannelsSortedForHtml ==
    (Done("GetById") /\ rq.status = "200") =>
        /\ rq.resp.kind \in {"html", "json"}
        /\ rq.resp.kind = "html" =>
              /\ IsPermutation(rq.resp.channels, rq.fetched)
              /\ TimeAscending(rq.resp.channels)
        /\ rq.resp.kind = "json" => rq.resp.channels = rq.fetched

\* the view got a list that had to be reordered
C8_Witness ==
    /\ Done("GetById")
    /\ rq.status = "200"
    /\ rq.resp.kind = "html"
    /\ rq.resp.channels # rq.fetched
    /\ Len(rq.fetched) >= 2

\* what C9 calls "all succeed": none of the named steps failed and both
\* checks passed
C9_Conditions ==
    /\ rq.err \notin {"validation", "begin", "node", "hardware",
                      "authentication", "repository"}
    /\ rq.hardware # NoHardware
    /\ IsSensorAnyCase(rq.hardware.Type)
    /\ Authenticated
    /\ rq.node # NoNode
    /\ rq.node.IdUser = rq.current.IdUser

\* C9 as stated: 201 exactly when the conditions hold, repository.Create
\* then called once with the body, and called zero times in every other case.
C9_Original ==
    Done("Create") =>
        /\ rq.status = "201" <=> C9_Conditions
        /\ rq.status = "201" => (Count("RepoCreate") = 1 /\ rq.write.arg = rq.body)
        /\ rq.status # "201" => Count("RepoCreate") = 0

\* C9 amended: 201 exactly when the conditions hold and the response was
\* sent; repository.Create was then called once with the body and the row is
\* stored; in every other case the response is not 201, nothing is stored,
\* and repository.Create was called at most once, and not at all unless
\* every step and check before it passed.
C9_Amended ==
    Done("Create") =>
        /\ rq.status = "201" <=> (C9_Conditions /\ rq.err # "send")
        /\ rq.status = "201" =>
              /\ Count("RepoCreate") = 1
              /\ rq.write.op = "create"
              /\ rq.write.arg = rq.body
              /\ sensors = [rq.pre EXCEPT ![rq.write.id] = SensorRow(rq.body)]
        /\ rq.status # "201" =>
              /\ sensors = rq.pre
              /\ Count("RepoCreate") <= 1
              /\ Called("RepoCreate") =>
                    /\ rq.err \in {"repository", "send"}
                    /\ rq.hardware # NoHardware
                    /\ IsSensorAnyCase(rq.hardware.Type)
                    /\ Authenticated
                    /\ rq.node.IdUser = rq.current.IdUser

\* a Create answered 201 and its row is stored
C9_Witness ==
    /\ Done("Create")
    /\ rq.status = "201"
    /\ Count("RepoCreate") = 1
    /\ sensors[rq.write.id] = SensorRow(rq.body)

\* C10: Create makes its calls in the order body validation, Begin, node
\* lookup, hardware lookup, authentication, repository.Create, response; the
\* type check comes before authentication and the ownership check after it.
\* So a non-sensor hardware gives 400 whoever sends the request and whatever
\* node it names, without authentication being attempted; 403 is given only
\* to an authenticated request whose hardware passed; and a body that fails
\* validation returns before any transaction is begun.
C10_CreateCheckOrder ==
    rq.h = "Create" =>
        /\ IsPrefix(rq.calls, CreateOrder)
        /\ (rq.hardware # NoHardware /\ ~IsSensorAnyCase(rq.hardware.Type)) =>
              /\ rq.pc = "done"
              /\ rq.status = "400"
              /\ ~Called("GetAuthentication")
              /\ rq.current = NoUser
        /\ rq.status = "403" =>
              /\ Called("GetAuthentication")
              /\ Authenticated
              /\ IsSensorAnyCase(rq.hardware.Type)
              /\ ~Called("RepoCreate")
        /\ rq.err = "authentication" =>
              /\ rq.hardware # NoHardware
              /\ IsSensorAnyCase(rq.hardware.Type)
        /\ rq.err = "validation" =>
              /\ rq.calls = <<"ParseBody">>
              /\ rq.begins = 0
              /\ rq.tx = "none"
              /\ openTx = 0

\* a request with a non-sensor hardware, another user's node and no valid
\* credentials was answered 400
C10_Witness ==
    /\ Done("Create")
    /\ rq.status = "400"
    /\ rq.user = Anonymous
    /\ rq.node # NoNode
    /\ rq.tx = "rolledback"

====
